---------------------------- MODULE Spec2Model ----------------------------
(***************************************************************************)
(* Palette extraction of prodbyeagle/color: the quantization pipeline      *)
(* (alpha filter, sampling, k-means, similarity filter) of                 *)
(* src/lib/quantization.ts and src/lib/utils.ts, the extractColors facade  *)
(* of src/main.ts, the converters of src/lib/convert.ts with formatColors  *)
(* of src/lib/colorFormatters.ts, and the converters and formatColors the  *)
(* repository keeps beside them in quantization.ts and convert.ts.         *)
(*                                                                         *)
(* Strings are TLA+ strings; a square root is kept as its radicand, and a  *)
(* quotient the code rounds as its numerator and denominator.              *)
(*                                                                         *)
(* Colours are tuples <<r, g, b>>.  JavaScript arrays are sequences, so a  *)
(* JavaScript index i is the TLA+ index i + 1.                             *)
(***************************************************************************)
EXTENDS Integers, Sequences, FiniteSets, TLC

(***************************************************************************)
(* Bounds of the model.                                                    *)
(***************************************************************************)
\* Longest pixel buffer (in pixels) quantize is started on.
MaxPixels == 4
\* Largest maxColors / k.
MaxK == 3
\* Longest point list kMeans is started on directly.
MaxPoints == 4
\* Longest list of colours filterSimilarColors is called on directly.
MaxCandidates == 4
\* The sample cap.  The source sets 2000 (quantization.ts:3); the model
\* scales it down so that buffers with more visible pixels than the cap
\* exist within MaxPixels.  Nothing in quantize depends on its value other
\* than through the comparison and the slice modelled below.
MAX_SAMPLE_SIZE == 3

(***************************************************************************)
(* Program constants.                                                      *)
(***************************************************************************)
MAX_ITERATIONS == 10
ALPHA_THRESHOLD == 16
\* The value of `let minDist = Infinity`: a sentinel no squared distance has.
Infinity == -1
\* An array slot that holds no centroid (JavaScript undefined).
Absent == <<>>

(***************************************************************************)
(* Input domains.                                                          *)
(***************************************************************************)
Red == <<255, 0, 0>>
Red2 == <<254, 0, 0>>
Green == <<0, 255, 0>>
Blue == <<0, 0, 255>>
\* RGBA pixels the generated buffers are built from: alpha on both sides of
\* the threshold, two colours at distance 1 and one far from both.
PixelKinds ==
    { <<255, 0, 0, 16>>, <<254, 0, 0, 255>>, <<0, 255, 0, 16>>,
      <<0, 255, 0, 15>>, <<0, 0, 255, 0>> }
\* The buffer of the older test of quantize: red, green, blue, red, opaque.
OlderTestBuffers ==
    { <<255, 0, 0, 255,  0, 255, 0, 255,  0, 0, 255, 255,  255, 0, 0, 255>> }
\* The buffers of src/tests/quantize.test.ts.
TestBuffers ==
    { <<255, 0, 0, 255,  0, 255, 0, 255,  0, 0, 255, 0,  255, 0, 0, 255>>,
      <<100, 100, 100, 0,  200, 200, 200, 10>>,
      <<123, 45, 67, 255>>,
      <<255, 255, 0, 255,  255, 255, 0, 255>> }
Thresholds == {-1, 0, 1, 2, 5}

RECURSIVE Flatten(_)
Flatten(ps) == IF ps = <<>> THEN <<>> ELSE Head(ps) \o Flatten(Tail(ps))

Buffers ==
    { Flatten(ps) : ps \in UNION { [1..n -> PixelKinds] : n \in 0..MaxPixels } }
        \cup TestBuffers \cup OlderTestBuffers

\* Points kMeans is started on directly.
PointKinds == { <<0, 0, 0>>, <<10, 0, 0>>, <<255, 0, 0>> }
PointLists == UNION { [1..n -> PointKinds] : n \in 0..MaxPoints }

\* Reds of longer lists of points, on which kMeans with k = 3 changes a
\* centroid in 9, in 10 and in 11 passes before none changes.
LongRunReds ==
    { <<199, 185, 181, 146, 123, 111, 100, 98, 18>>,
      <<7, 18, 19, 24, 29, 54, 106, 136, 251>>,
      <<223, 207, 200, 192, 188, 169, 140, 118, 115, 0>> }
LongRunLists == { [i \in 1..Len(r) |-> <<r[i], 0, 0>>] : r \in LongRunReds }

(***************************************************************************)
(* quantization.ts: distSq                                                 *)
(***************************************************************************)
distSq(a, b) ==
    IF a = Absent \/ b = Absent THEN Infinity
    ELSE (a[1] - b[1]) * (a[1] - b[1]) + (a[2] - b[2]) * (a[2] - b[2])
             + (a[3] - b[3]) * (a[3] - b[3])

\* Variant: d <= minDist, so that the last of several nearest centroids wins.
NotGreaterThan(d, minDist) ==
    /\ d # Infinity
    /\ (minDist = Infinity \/ d <= minDist)

\* d < minDist, where minDist may be Infinity.
LessThan(d, minDist) ==
    /\ d # Infinity
    /\ (minDist = Infinity \/ d < minDist)

(***************************************************************************)
(* utils.ts: dist and filterSimilarColors                                  *)
(***************************************************************************)
Min(x, y) == IF x < y THEN x ELSE y

\* The values an array entry can hold besides an integer.  They stand
\* outside every integer the inputs use and take part in no arithmetic.
NaN == 1000001
PositiveInfinity == 1000002
NegativeInfinity == 1000003
undefined == 1000004

NumberIsFinite(x) == x \notin {NaN, PositiveInfinity, NegativeInfinity, undefined}

\* rgb[i - 1] in convert.ts: reading past the end of the array gives undefined.
element(rgb, i) == IF i <= Len(rgb) THEN rgb[i] ELSE undefined

\* The destructuring default `= 0` of convert.ts and the `?? 0` of dist,
\* which replace undefined only.
orZero(x) == IF x = undefined THEN 0 ELSE x

RECURSIVE distSum(_, _, _, _)
\* The sum dist takes the square root of, accumulated over i < len.
distSum(a, b, i, len) ==
    IF i >= len THEN 0
    ELSE LET ai == orZero(a[i + 1])
             bi == orZero(b[i + 1])
         IN  (ai - bi) * (ai - bi) + distSum(a, b, i + 1, len)

\* Variant: the loop runs over a.length, the entries b lacks counting as 0.
distRadicandOverFirst(a, b) ==
    distSum(a, [i \in 1..Len(a) |-> IF i <= Len(b) THEN b[i] ELSE 0], 0, Len(a))

distRadicand(a, b) == distSum(a, b, 0, Min(Len(a), Len(b)))

\* Variant: a colour exactly the threshold away counts as similar.
distAtMost(a, b, threshold) ==
    /\ threshold >= 0
    /\ distRadicand(a, b) <= threshold * threshold

\* dist(a, b) < threshold for an integer threshold: sqrt(s) < t iff t > 0 and
\* s < t * t.
distBelow(a, b, threshold) ==
    /\ threshold > 0
    /\ distRadicand(a, b) < threshold * threshold

\* Variant: a candidate is compared with the last kept colour only.
isSimilarToLast(color, filteredColors, threshold) ==
    /\ filteredColors # <<>>
    /\ distBelow(color, filteredColors[Len(filteredColors)], threshold)

\* The inner loop: some already kept colour is closer than the threshold.
isSimilar(color, filteredColors, threshold) ==
    \E j \in 1..Len(filteredColors) : distBelow(color, filteredColors[j], threshold)

RECURSIVE filterLoop(_, _, _, _)
filterLoop(colors, threshold, i, filteredColors) ==
    IF i > Len(colors) THEN filteredColors
    ELSE IF isSimilar(colors[i], filteredColors, threshold)
         THEN filterLoop(colors, threshold, i + 1, filteredColors)
         ELSE filterLoop(colors, threshold, i + 1, Append(filteredColors, colors[i]))

filterSimilarColors(colors, threshold) == filterLoop(colors, threshold, 1, <<>>)

(***************************************************************************)
(* quantization.ts: the alpha filter of quantize                           *)
(***************************************************************************)
\* Variant: a pixel whose alpha equals the threshold is dropped too.
isTransparentInclusive(a) == a <= ALPHA_THRESHOLD

isTransparent(a) == a < ALPHA_THRESHOLD

RECURSIVE scanLoop(_, _, _)
\* for (let i = 0; i <= data.length - 4; i += 4)
scanLoop(data, i, pixels) ==
    IF i > Len(data) - 4 THEN pixels
    ELSE IF isTransparent(data[i + 4])
         THEN scanLoop(data, i + 4, pixels)
         ELSE scanLoop(data, i + 4,
                       Append(pixels, <<data[i + 1], data[i + 2], data[i + 3]>>))

visiblePixels(data) == scanLoop(data, 0, <<>>)

(***************************************************************************)
(* quantization.ts: shuffle (Fisher-Yates; every value of Math.random)     *)
(***************************************************************************)
\* Variant: the swap without the temporary: copy[j] is written over both.
swapWithoutTemp(copy, i, j) == [copy EXCEPT ![i + 1] = copy[j + 1]]

swap(copy, i, j) ==
    [copy EXCEPT ![i + 1] = copy[j + 1], ![j + 1] = copy[i + 1]]

RECURSIVE shuffleFrom(_, _)
\* The arrays the loop can leave, started at index i.
shuffleFrom(copy, i) ==
    IF i <= 0 THEN {copy}
    ELSE UNION { shuffleFrom(swap(copy, i, j), i - 1) : j \in 0..i }

shuffle(arr) == shuffleFrom(arr, Len(arr) - 1)

\* Variant: the slice keeps one element too many.
sliceOneMore(arr, n) == SubSeq(arr, 1, Min(n + 1, Len(arr)))

slice(arr, n) == SubSeq(arr, 1, Min(n, Len(arr)))

needsSampling(pixels) == Len(pixels) > MAX_SAMPLE_SIZE

\* The values `sampled` can take.
sampledChoices(pixels) ==
    IF needsSampling(pixels)
    THEN { slice(s, MAX_SAMPLE_SIZE) : s \in shuffle(pixels) }
    ELSE {pixels}

(***************************************************************************)
(* quantization.ts: kMeans                                                 *)
(***************************************************************************)
\* Variant: every pixel becomes a centroid (the slice is missing).
initialCentroidsUnsliced(pixels, k) ==
    [i \in 1..(IF Len(pixels) > k THEN Len(pixels) ELSE k) |->
        IF i <= Len(pixels) THEN pixels[i] ELSE Absent]

\* Variant: the slots past the end of the array are filled with black.
initialCentroidsPadded(pixels, k) ==
    [i \in 1..k |-> IF i <= Len(pixels) THEN pixels[i] ELSE <<0, 0, 0>>]

\* pixels.slice(0, k).map(copy), seen through indices 0..k-1: the slots past
\* the end of the array hold nothing.
initialCentroids(pixels, k) ==
    [i \in 1..k |-> IF i <= Len(pixels) THEN pixels[i] ELSE Absent]

RECURSIVE closestLoop(_, _, _, _, _, _)
\* The inner loop over i < k, with its two locals.
closestLoop(pixel, cs, k, i, minDist, closestIndex) ==
    IF i >= k THEN closestIndex
    ELSE IF cs[i + 1] = Absent
         THEN closestLoop(pixel, cs, k, i + 1, minDist, closestIndex)
         ELSE LET d == distSq(pixel, cs[i + 1])
              IN  IF LessThan(d, minDist)
                  THEN closestLoop(pixel, cs, k, i + 1, d, i)
                  ELSE closestLoop(pixel, cs, k, i + 1, minDist, closestIndex)

closest(pixel, cs, k) == closestLoop(pixel, cs, k, 0, Infinity, 0)

RECURSIVE assignLoop(_, _, _, _, _)
\* clusters[closestIndex]?.push(pixel) for every pixel in order.
assignLoop(pixels, cs, k, p, clusters) ==
    IF p > Len(pixels) THEN clusters
    ELSE LET c == closest(pixels[p], cs, k)
         IN  assignLoop(pixels, cs, k, p + 1,
                 IF c + 1 \in DOMAIN clusters
                 THEN [clusters EXCEPT ![c + 1] = Append(@, pixels[p])]
                 ELSE clusters)

assign(pixels, cs, k) == assignLoop(pixels, cs, k, 1, [i \in 1..k |-> <<>>])

RECURSIVE sumChannel(_, _, _)
sumChannel(cluster, ch, p) ==
    IF p > Len(cluster) THEN 0 ELSE cluster[p][ch] + sumChannel(cluster, ch, p + 1)

\* Variant: Math.floor(s / n).
floorDiv(s, n) == s \div n

\* Math.round(s / n) for s >= 0, n > 0: halves go up.
roundDiv(s, n) == (2 * s + n) \div (2 * n)

\* Variant: the sums are not divided by the size of the cluster.
meanUndivided(cluster) ==
    << sumChannel(cluster, 1, 1), sumChannel(cluster, 2, 1),
       sumChannel(cluster, 3, 1) >>

mean(cluster) ==
    << roundDiv(sumChannel(cluster, 1, 1), Len(cluster)),
       roundDiv(sumChannel(cluster, 2, 1), Len(cluster)),
       roundDiv(sumChannel(cluster, 3, 1), Len(cluster)) >>

RECURSIVE updateLoop(_, _, _, _, _)
\* The recompute loop over i < k: the centroids and the converged flag.
updateLoop(clusters, k, i, cs, converged) ==
    IF i >= k THEN [centroids |-> cs, converged |-> converged]
    ELSE IF clusters[i + 1] = <<>>
         THEN updateLoop(clusters, k, i + 1, cs, converged)
         ELSE LET newCentroid == mean(clusters[i + 1])
              IN  IF cs[i + 1] = Absent \/ newCentroid # cs[i + 1]
                  THEN updateLoop(clusters, k, i + 1,
                                  [cs EXCEPT ![i + 1] = newCentroid], FALSE)
                  ELSE updateLoop(clusters, k, i + 1, cs, converged)

\* Variant: the centroid of an empty cluster is discarded.
iterationDroppingEmpty(pixels, k, cs) ==
    LET cl == assign(pixels, cs, k)
        r == updateLoop(cl, k, 0, cs, TRUE)
    IN  [centroids |-> [i \in 1..k |-> IF cl[i] = <<>> THEN Absent
                                        ELSE r.centroids[i]],
         converged |-> r.converged]

\* Variant: converged is what the last slot says.
iterationLastDecides(pixels, k, cs) ==
    LET r == updateLoop(assign(pixels, cs, k), k, 0, cs, TRUE)
    IN  [centroids |-> r.centroids, converged |-> r.centroids[k] = cs[k]]

\* One pass of the body of the iteration loop.
iteration(pixels, k, cs) == updateLoop(assign(pixels, cs, k), k, 0, cs, TRUE)

RECURSIVE presentFrom(_, _)
presentFrom(cs, i) ==
    IF i > Len(cs) THEN <<>>
    ELSE IF cs[i] = Absent THEN presentFrom(cs, i + 1)
         ELSE <<cs[i]>> \o presentFrom(cs, i + 1)

\* Variant: a centroid equal to an earlier one is filtered out as well.
presentOnce(cs) ==
    presentFrom([i \in 1..Len(cs) |->
                    IF \E j \in 1..(i - 1) : cs[j] = cs[i] THEN Absent ELSE cs[i]], 1)

\* centroids.filter(Boolean)
present(cs) == presentFrom(cs, 1)

RECURSIVE kMeansLoop(_, _, _, _)
\* The iteration loop from iteration `it` on: the centroids it leaves.
kMeansLoop(pixels, k, cs, it) ==
    IF it >= MAX_ITERATIONS THEN cs
    ELSE LET r == iteration(pixels, k, cs)
         IN  IF r.converged THEN r.centroids
             ELSE kMeansLoop(pixels, k, r.centroids, it + 1)

\* kMeans as a function of its arguments.
kMeans(pixels, k) ==
    IF Len(pixels) = 0 THEN <<>>
    ELSE present(kMeansLoop(pixels, k, initialCentroids(pixels, k), 0))

\* quantize as a function of its arguments when no sampling takes place.
quantizeUnsampled(buffer, k, threshold) ==
    IF Len(visiblePixels(buffer)) = 0 THEN <<>>
    ELSE filterSimilarColors(kMeans(visiblePixels(buffer), k), threshold)

(***************************************************************************)
(* convert.ts and colorFormatters.ts: formatColors and its converters      *)
(***************************************************************************)
Formats == {"rgb", "hex", "hsl", "oklch"}

HexDigits ==
    << "0", "1", "2", "3", "4", "5", "6", "7",
       "8", "9", "a", "b", "c", "d", "e", "f" >>

\* Variant: the channel is reduced modulo 256.
clampChannelWrapped(x) == x % 256

\* Math.round(clamp01(intVal / 255) * 255) for an integer channel.
clampChannel(x) == IF x < 0 THEN 0 ELSE IF x > 255 THEN 255 ELSE x

\* Variant: without padStart, a byte below 16 prints as one digit.
toHexChannelUnpadded(x) ==
    LET intVal == IF NumberIsFinite(x) THEN x ELSE 0
        scaled == clampChannel(intVal)
    IN  IF scaled < 16
        THEN HexDigits[scaled + 1]
        ELSE HexDigits[(scaled \div 16) + 1] \o HexDigits[(scaled % 16) + 1]

\* Lines 40-44: intVal, scaled, and scaled.toString(16).padStart(2, '0').
toHexChannel(x) ==
    LET intVal == IF NumberIsFinite(x) THEN x ELSE 0
        scaled == clampChannel(intVal)
    IN  HexDigits[(scaled \div 16) + 1] \o HexDigits[(scaled % 16) + 1]

rgbToHex(rgb) ==
    "#" \o toHexChannel(orZero(element(rgb, 1)))
        \o toHexChannel(orZero(element(rgb, 2)))
        \o toHexChannel(orZero(element(rgb, 3)))

\* String(x) for the number x of a template literal.
numberString(x) == IF x = NaN THEN "NaN" ELSE ToString(x)

\* clamp01(x / 255), in units of 1/255: NaN passes both comparisons of
\* clamp01 and comes back as NaN, the infinities end at the bounds.
clamp01(x) ==
    CASE x = NaN -> NaN
      [] x = PositiveInfinity -> 255
      [] x = NegativeInfinity -> 0
      [] OTHER -> clampChannel(x)

Max3(a, b, c) == IF a >= b /\ a >= c THEN a ELSE IF b >= c THEN b ELSE c
Min3(a, b, c) == IF a <= b /\ a <= c THEN a ELSE IF b <= c THEN b ELSE c
Abs(x) == IF x < 0 THEN -x ELSE x

\* Lines 71-81: the hue in degrees as the fraction hueNumerator / delta, for
\* normalised channels rn, gn, bn in units of 1/255 and delta # 0.
hueNumerator(rn, gn, bn) ==
    LET max == Max3(rn, gn, bn)
        delta == max - Min3(rn, gn, bn)
    IN  IF max = rn
        THEN 60 * (gn - bn) + (IF gn < bn THEN 360 * delta ELSE 0)
        ELSE IF max = gn
        THEN 60 * (bn - rn) + 120 * delta
        ELSE 60 * (rn - gn) + 240 * delta

\* num / den lies exactly halfway between two integers.
isHalfway(num, den) == (2 * num) % den = 0 /\ ((2 * num) \div den) % 2 = 1

\* The channel triplets used below whose hue is an exact half in real
\* arithmetic while its evaluation in doubles ends just under the half, so
\* that Math.round gives the lower integer: for [0, 24, 1] the hue
\* ((bn - rn) / delta + 2) * 60 is 122.5 and its double 122.49999999999999.
HueBelowHalf == { <<0, 24, 1>> }

\* Variant: the fraction is truncated.
MathRoundTruncated(num, den, below) == num \div den

\* Math.round of the double that evaluates num / den, den > 0: the nearest
\* integer, and at an exact half the upper one unless the double is below it.
MathRound(num, den, below) ==
    IF isHalfway(num, den) /\ below
    THEN num \div den
    ELSE (2 * num + den) \div (2 * den)

\* Lines 68-89: Math.round(hue), Math.round(saturation * 100) and
\* Math.round(lightness * 100) for normalised channels in units of 1/255.
hslRounded(rn, gn, bn) ==
    LET max == Max3(rn, gn, bn)
        min == Min3(rn, gn, bn)
        delta == max - min
    IN  [ hue |-> IF delta = 0 THEN 0
                  ELSE MathRound(hueNumerator(rn, gn, bn), delta,
                                 <<rn, gn, bn>> \in HueBelowHalf),
          s |-> IF delta = 0 THEN 0
                ELSE MathRound(100 * delta, 255 - Abs(max + min - 255), FALSE),
          l |-> MathRound(100 * (max + min), 510, FALSE) ]

hslString(h, s, l) ==
    "hsl(" \o numberString(h) \o ", " \o numberString(s) \o "%, "
           \o numberString(l) \o "%)"

\* convert.ts, lines 62-92.  A NaN channel makes max, min and delta NaN,
\* fails every comparison and reaches h, s and l.
rgbToHsl(rgb) ==
    LET rn == clamp01(orZero(element(rgb, 1)))
        gn == clamp01(orZero(element(rgb, 2)))
        bn == clamp01(orZero(element(rgb, 3)))
    IN  IF NaN \in {rn, gn, bn}
        THEN hslString(NaN, NaN, NaN)
        ELSE LET v == hslRounded(rn, gn, bn)
             IN  hslString(v.hue % 360, v.s, v.l)

\* Line 21 of srgbToLinear, in units of 1/255:
\* clamp01(Number.isFinite(channel) ? channel / 255 : 0).
normalized(channel) == clampChannel(IF NumberIsFinite(channel) THEN channel ELSE 0)

\* x.toFixed(digits) for the OKLCH coordinate named q.  The coordinates are
\* functions of the three normalised channels only; their decimal digits,
\* out of reach of integer arithmetic, are kept as that dependency.
toFixed(q, channels) == q \o ToString(channels)

\* convert.ts, lines 113-140.  map visits the entries the array has, so an
\* array of fewer than three leaves rLin, gLin or bLin undefined, which
\* turns l_, m_ and s_ and every later value into NaN.
rgbToOklch(rgb) ==
    IF Len(rgb) < 3
    THEN "oklch(NaN NaN NaNdeg)"
    ELSE LET channels == <<normalized(rgb[1]), normalized(rgb[2]), normalized(rgb[3])>>
         IN  "oklch(" \o toFixed("L", channels) \o " " \o toFixed("C", channels)
                      \o " " \o toFixed("H", channels) \o "deg)"

(***************************************************************************)
(* quantization.ts, lines 413-468: the converters kept beside the          *)
(* clustering code.  They are applied to triplets of bytes only.           *)
(***************************************************************************)
\* n.toString(16) for n >= 0.
RECURSIVE toString16(_)
toString16(n) ==
    IF n < 16 THEN HexDigits[n + 1]
    ELSE toString16(n \div 16) \o HexDigits[(n % 16) + 1]

\* Lines 424-427: ((1 << 24) + (r << 16) + (g << 8) + b).toString(16).slice(1)
rgbToHexShifted(rgb) ==
    LET r == orZero(element(rgb, 1))
        g == orZero(element(rgb, 2))
        b == orZero(element(rgb, 3))
    IN  "#" \o Tail(toString16(16777216 + r * 65536 + g * 256 + b))

\* Lines 438-461: r / 255 without clamp01, and Math.round(h) without % 360.
rgbToHslUnwrapped(rgb) ==
    LET v == hslRounded(orZero(element(rgb, 1)), orZero(element(rgb, 2)),
                        orZero(element(rgb, 3)))
    IN  hslString(v.hue, v.s, v.l)

\* Variant: the message does not carry the format.
unsupportedFormatFixed(format) == <<"Unsupported color format">>

\* The error of the default branch: `Unsupported color format: ${format}`.
unsupportedFormat(format) == <<"Unsupported color format: ", format>>

\* Variant: the hsl case calls the hex converter.
formatColorsHslAsHex(colors, format) ==
    CASE format = "rgb" -> colors
      [] format = "hex" -> [i \in 1..Len(colors) |-> rgbToHex(colors[i])]
      [] format = "hsl" -> [i \in 1..Len(colors) |-> rgbToHex(colors[i])]
      [] format = "oklch" -> [i \in 1..Len(colors) |-> rgbToOklch(colors[i])]

\* The value returned by the four cases of the switch.
formatColors(colors, format) ==
    CASE format = "rgb" -> colors
      [] format = "hex" -> [i \in 1..Len(colors) |-> rgbToHex(colors[i])]
      [] format = "hsl" -> [i \in 1..Len(colors) |-> rgbToHsl(colors[i])]
      [] format = "oklch" -> [i \in 1..Len(colors) |-> rgbToOklch(colors[i])]

\* The switch reaches its default branch.
isDefaultCase(format) == format \notin {"rgb", "hex", "hsl", "oklch"}

\* convert.ts, lines 154-168: the formatColors of three cases.
formatColorsThreeCases(colors, format) ==
    CASE format = "rgb" -> colors
      [] format = "hex" -> [i \in 1..Len(colors) |-> rgbToHex(colors[i])]
      [] format = "hsl" -> [i \in 1..Len(colors) |-> rgbToHsl(colors[i])]

isDefaultOfThreeCases(format) == format \notin {"rgb", "hex", "hsl"}

\* What a call came to: not made yet, a value returned, or an error thrown.
NotCalled == [state |-> "none", value |-> <<>>, error |-> <<>>]
Returned(v) == [state |-> "returned", value |-> v, error |-> <<>>]
Threw(e) == [state |-> "threw", value |-> <<>>, error |-> e]

(***************************************************************************)
(* main.ts: the argument checks of extractColors                           *)
(***************************************************************************)
\* A JavaScript number passed as maxColors: an integer val, val + 1/2
\* ("frac"), NaN, or an infinity of sign val; str is String(x).
Num(tag, val, str) == [tag |-> tag, val |-> val, str |-> str]

MaxColorsChoices ==
    { Num("int", n, ToString(n)) : n \in -1..MaxK }
        \cup { Num("frac", 1, "1.5"), Num("frac", -2, "-1.5"), Num("nan", 0, "NaN"),
               Num("inf", 1, "Infinity"), Num("inf", -1, "-Infinity") }

FormatChoices == Formats \cup {"cmyk", "HEX", "lab"}
DistanceChoices == {2, 10}
\* What the pixel source can deliver, and the errors it can fail with.
Images == TestBuffers \cup {<<>>, <<254, 0, 0, 255,  255, 0, 0, 16,  0, 255, 0, 16>>}
SourceErrors == { <<"Failed to get 2D context">>, <<"The source image could not be decoded.">> }

\* maxColors <= 0
lessOrEqualZero(x) ==
    CASE x.tag = "int" -> x.val <= 0
      [] x.tag = "frac" -> x.val < 0
      [] x.tag = "nan" -> FALSE
      [] x.tag = "inf" -> x.val < 0

\* Variant: Number.isFinite in place of Number.isInteger.
isFinite(x) == x.tag \in {"int", "frac"}

isInteger(x) == x.tag = "int"

invalidMaxColors(x) == lessOrEqualZero(x) \/ ~isInteger(x)

invalidFormat(format) == format \notin Formats

\* 'maxColors must be a positive integer greater than 0.', cut at its digit.
maxColorsMessage == <<"maxColors must be a positive integer greater than ", "0", ".">>

NoError == <<>>

(***************************************************************************)
(* State                                                                   *)
(***************************************************************************)
VARIABLES
    data,               \* quantize: the RGBA byte buffer
    maxColors,          \* quantize: the number of colours asked for
    distanceThreshold,  \* quantize: the similarity threshold
    pixels,             \* quantize: the visible pixels
    sampled,            \* quantize: the points handed to kMeans
    palette,            \* quantize: dominantColors, the value returned
    kmPixels,           \* kMeans: its pixels argument
    kmK,                \* kMeans: its k argument
    centroids,          \* kMeans: the centroid array, slots 0..k-1
    clusters,           \* kMeans: the clusters of the last pass, slots 0..k-1
    iter,               \* kMeans: the loop counter
    kmResult,           \* kMeans: the value returned
    pc,                 \* where quantize / kMeans stand
    exMaxColors,        \* extractColors: maxColors as passed
    exFormat,           \* extractColors: format
    exDistance,         \* extractColors: distance
    srcOutcome,         \* the settled promise of getImageDataFromFile
    exError,            \* extractColors: the error it rejected with
    exResult,           \* extractColors: the value it resolved with
    exPc,               \* where extractColors stands
    trace,              \* the calls made so far, in order
    cvRgb,              \* converters: the array passed as rgb
    cvOut,              \* converters: the string each one returned, "" before its call
    fcColors,           \* formatColors: colors
    fcFormat,           \* formatColors: format
    fcOut,              \* formatColors: what each formatColors came to
    dsA,                \* dist: a
    dsB,                \* dist: b
    dsOut,              \* dist: the sum whose square root it returned
    dsPc,               \* dist: "call" before it ran, "returned" after
    flColors,           \* filterSimilarColors: its colors argument
    flThreshold,        \* filterSimilarColors: its threshold argument
    flOut,              \* filterSimilarColors: the value returned
    flPc                \* filterSimilarColors: "call", then "returned"

qvars == <<data, maxColors, distanceThreshold, pixels, sampled, palette>>
kvars == <<kmPixels, kmK, centroids, clusters, iter, kmResult>>
evars == <<exMaxColors, exFormat, exDistance, srcOutcome, exError, exResult>>
dvars == <<dsA, dsB, dsOut, dsPc>>
fvars == <<flColors, flThreshold, flOut, flPc>>
cvars == <<cvRgb, cvOut, fcColors, fcFormat, fcOut, dvars, fvars>>
vars == <<qvars, kvars, evars, cvars, pc, exPc, trace>>

Pending == [state |-> "pending", value |-> <<>>]

QuantizeIdle ==
    /\ pixels = <<>>
    /\ sampled = <<>>
    /\ palette = <<>>

KMeansIdle ==
    /\ kmPixels = <<>>
    /\ kmK = 0
    /\ centroids = <<>>
    /\ clusters = <<>>
    /\ iter = 0
    /\ kmResult = <<>>

ExtractIdle ==
    /\ exMaxColors = Num("int", 0, "0")
    /\ exFormat = "hex"
    /\ exDistance = 10
    /\ srcOutcome = Pending
    /\ exError = NoError
    /\ exResult = <<>>
    /\ exPc = "none"

NoOutput ==
    [rgbToHex |-> "", rgbToHsl |-> "", rgbToOklch |-> "",
     rgbToHexShifted |-> "", rgbToHslUnwrapped |-> ""]

NoCalls == [formatColors |-> NotCalled, formatColorsThreeCases |-> NotCalled]

DistIdle ==
    /\ dsA = <<>>
    /\ dsB = <<>>
    /\ dsOut = 0
    /\ dsPc = "idle"

FilterIdle ==
    /\ flColors = <<>>
    /\ flThreshold = 0
    /\ flOut = <<>>
    /\ flPc = "idle"

ConvertIdle ==
    /\ cvRgb = <<>>
    /\ cvOut = NoOutput
    /\ fcColors = <<>>
    /\ fcFormat = "rgb"
    /\ fcOut = NoCalls
    /\ DistIdle
    /\ FilterIdle

(***************************************************************************)
(* quantize                                                                *)
(***************************************************************************)
\* Lines 67-77: the alpha filter.
QuantizeScan ==
    /\ pc = "scan"
    /\ pixels' = visiblePixels(data)
    /\ pc' = "scanned"
    /\ UNCHANGED cvars
    /\ UNCHANGED <<data, maxColors, distanceThreshold, sampled, palette,
                   kvars, evars, exPc, trace>>

\* Line 79: no visible pixel.
QuantizeEmpty ==
    /\ pc = "scanned"
    /\ Len(pixels) = 0
    /\ palette' = <<>>
    /\ pc' = "done"
    /\ UNCHANGED cvars
    /\ UNCHANGED <<data, maxColors, distanceThreshold, pixels, sampled,
                   kvars, evars, exPc, trace>>

\* Variant: kMeans is called whether or not a pixel is visible.
QuantizeSampleUnguarded ==
    /\ pc = "scanned"
    /\ \E s \in sampledChoices(pixels) :
          /\ sampled' = s
          /\ kmPixels' = s
    /\ kmK' = maxColors
    /\ trace' = Append(trace, "kMeans")
    /\ pc' = "kmEnter"
    /\ UNCHANGED cvars
    /\ UNCHANGED <<data, maxColors, distanceThreshold, pixels, palette,
                   centroids, clusters, iter, kmResult, evars, exPc>>

\* Lines 81-87: the sample, and the call of kMeans on it.
QuantizeSample ==
    /\ pc = "scanned"
    /\ Len(pixels) # 0
    /\ \E s \in sampledChoices(pixels) :
          /\ sampled' = s
          /\ kmPixels' = s
    /\ kmK' = maxColors
    /\ trace' = Append(trace, "kMeans")
    /\ pc' = "kmEnter"
    /\ UNCHANGED cvars
    /\ UNCHANGED <<data, maxColors, distanceThreshold, pixels, palette,
                   centroids, clusters, iter, kmResult, evars, exPc>>

\* Lines 86-91: the similarity filter on what kMeans returned.
QuantizeFilter ==
    /\ pc = "kmDone"
    /\ trace' = Append(trace, "filterSimilarColors")
    /\ palette' = filterSimilarColors(kmResult, distanceThreshold)
    /\ pc' = "done"
    /\ UNCHANGED cvars
    /\ UNCHANGED <<data, maxColors, distanceThreshold, pixels, sampled,
                   kvars, evars, exPc>>

(***************************************************************************)
(* kMeans                                                                  *)
(***************************************************************************)
\* Variant: the seeds are drawn from a shuffle of the points.
KMeansEnterRandomSeeds ==
    /\ pc = "kmEnter"
    /\ IF Len(kmPixels) = 0
       THEN /\ kmResult' = <<>>
            /\ pc' = "kmDone"
            /\ UNCHANGED centroids
       ELSE /\ \E s \in shuffle(kmPixels) : centroids' = initialCentroids(s, kmK)
            /\ pc' = "kmLoop"
            /\ UNCHANGED kmResult
    /\ iter' = 0
    /\ UNCHANGED cvars
    /\ UNCHANGED <<kmPixels, kmK, clusters, qvars, evars, exPc, trace>>

\* Lines 108-111.
KMeansEnter ==
    /\ pc = "kmEnter"
    /\ IF Len(kmPixels) = 0
       THEN /\ kmResult' = <<>>
            /\ pc' = "kmDone"
            /\ UNCHANGED centroids
       ELSE /\ centroids' = initialCentroids(kmPixels, kmK)
            /\ pc' = "kmLoop"
            /\ UNCHANGED kmResult
    /\ iter' = 0
    /\ UNCHANGED cvars
    /\ UNCHANGED <<kmPixels, kmK, clusters, qvars, evars, exPc, trace>>

\* Variant: the loop runs until no centroid changes.
KMeansIterateUncapped ==
    /\ pc = "kmLoop"
    /\ LET r == iteration(kmPixels, kmK, centroids)
       IN  /\ clusters' = assign(kmPixels, centroids, kmK)
           /\ centroids' = r.centroids
           /\ IF r.converged
              THEN /\ iter' = iter
                   /\ pc' = "kmReturn"
              ELSE /\ iter' = iter + 1
                   /\ pc' = "kmLoop"
    /\ UNCHANGED cvars
    /\ UNCHANGED <<kmPixels, kmK, kmResult, qvars, evars, exPc, trace>>

\* Lines 113-162: one pass of the loop body, the break and the increment.
KMeansIterate ==
    /\ pc = "kmLoop"
    /\ iter < MAX_ITERATIONS
    /\ LET r == iteration(kmPixels, kmK, centroids)
       IN  /\ clusters' = assign(kmPixels, centroids, kmK)
           /\ centroids' = r.centroids
           /\ IF r.converged
              THEN /\ iter' = iter
                   /\ pc' = "kmReturn"
              ELSE /\ iter' = iter + 1
                   /\ pc' = IF iter + 1 < MAX_ITERATIONS THEN "kmLoop" ELSE "kmReturn"
    /\ UNCHANGED cvars
    /\ UNCHANGED <<kmPixels, kmK, kmResult, qvars, evars, exPc, trace>>

\* Line 164.
KMeansReturn ==
    /\ pc = "kmReturn"
    /\ kmResult' = present(centroids)
    /\ pc' = "kmDone"
    /\ UNCHANGED cvars
    /\ UNCHANGED <<kmPixels, kmK, centroids, clusters, iter, qvars, evars, exPc, trace>>

(***************************************************************************)
(* extractColors and the pixel source it awaits                            *)
(***************************************************************************)
\* Lines 41-49: the argument checks and the call of getImageDataFromFile.
ExtractCall ==
    /\ exPc = "call"
    /\ IF invalidMaxColors(exMaxColors)
       THEN /\ exError' = maxColorsMessage
            /\ exPc' = "rejected"
            /\ UNCHANGED trace
       ELSE IF invalidFormat(exFormat)
       THEN /\ exError' = unsupportedFormat(exFormat)
            /\ exPc' = "rejected"
            /\ UNCHANGED trace
       ELSE /\ trace' = Append(trace, "getImageDataFromFile")
            /\ exPc' = "await"
            /\ UNCHANGED exError
    /\ UNCHANGED cvars
    /\ UNCHANGED <<exMaxColors, exFormat, exDistance, srcOutcome, exResult,
                   qvars, kvars, pc>>

\* The pixel source delivers an image.
SourceResolve ==
    /\ exPc = "await"
    /\ srcOutcome = Pending
    /\ \E img \in Images : srcOutcome' = [state |-> "fulfilled", value |-> img]
    /\ UNCHANGED cvars
    /\ UNCHANGED <<exMaxColors, exFormat, exDistance, exError, exResult,
                   qvars, kvars, pc, exPc, trace>>

\* The pixel source fails.
SourceReject ==
    /\ exPc = "await"
    /\ srcOutcome = Pending
    /\ \E e \in SourceErrors : srcOutcome' = [state |-> "rejected", value |-> e]
    /\ UNCHANGED cvars
    /\ UNCHANGED <<exMaxColors, exFormat, exDistance, exError, exResult,
                   qvars, kvars, pc, exPc, trace>>

\* Variant: the failure of the pixel source is wrapped in a new error.
ExtractThrowWrapped ==
    /\ exPc = "await"
    /\ srcOutcome.state = "rejected"
    /\ exError' = <<"Image decoding failed: ">> \o srcOutcome.value
    /\ exPc' = "rejected"
    /\ UNCHANGED cvars
    /\ UNCHANGED <<exMaxColors, exFormat, exDistance, srcOutcome, exResult,
                   qvars, kvars, pc, trace>>

\* Line 49, resumed with a rejection: the await throws it.
ExtractThrow ==
    /\ exPc = "await"
    /\ srcOutcome.state = "rejected"
    /\ exError' = srcOutcome.value
    /\ exPc' = "rejected"
    /\ UNCHANGED cvars
    /\ UNCHANGED <<exMaxColors, exFormat, exDistance, srcOutcome, exResult,
                   qvars, kvars, pc, trace>>

\* Lines 49-50, resumed with the image: the call of quantize.
ExtractQuantize ==
    /\ exPc = "await"
    /\ srcOutcome.state = "fulfilled"
    /\ data' = srcOutcome.value
    /\ maxColors' = exMaxColors.val
    /\ distanceThreshold' = exDistance
    /\ trace' = Append(trace, "quantize")
    /\ pc' = "scan"
    /\ exPc' = "quantize"
    /\ UNCHANGED cvars
    /\ UNCHANGED <<pixels, sampled, palette, kvars, evars>>

\* Lines 51-55: quantize has returned; formatColors and the return.
ExtractFormat ==
    /\ exPc = "quantize"
    /\ pc = "done"
    /\ trace' = Append(trace, "formatColors")
    /\ exResult' = formatColors(palette, exFormat)
    /\ exPc' = "resolved"
    /\ UNCHANGED cvars
    /\ UNCHANGED <<exMaxColors, exFormat, exDistance, srcOutcome, exError,
                   qvars, kvars, pc>>

(***************************************************************************)
(* Calls of the converters and of formatColors                             *)
(***************************************************************************)
\* Channel values of the triplets the converters are called on.
Grid == {0, 1, 7, 9, 24, 128, 255}

\* Triplets of bytes: the grid, and a family in which every channel takes
\* every byte.
ByteTriplets ==
    { <<r, g, b>> : r \in Grid, g \in Grid, b \in Grid }
        \cup { <<x, 255 - x, (7 * x) % 256>> : x \in 0..255 }

\* Arrays with a channel out of range, not finite or missing.
ChannelValues == (-20..275) \cup {NaN, PositiveInfinity, NegativeInfinity, undefined}
Arrays ==
    { <<x, 100, 100>> : x \in ChannelValues }
        \cup { <<255, x, 0>> : x \in ChannelValues }
        \cup { <<0, 128, x>> : x \in ChannelValues }
        \cup { <<>>, <<255>>, <<255, 204>>, <<255, 204, 0, 255>>, <<NaN, NaN, NaN>> }

\* The lists passed to formatColors.
ListColours == { <<255, 0, 0>>, <<0, 255, 0>>, <<255, 0, 1>>, <<0, 24, 1>> }
ColourLists ==
    { <<>> } \cup { <<c>> : c \in ListColours }
             \cup { <<c, e>> : c \in ListColours, e \in ListColours }

CallRgbToHex ==
    /\ cvOut.rgbToHex = ""
    /\ cvOut' = [cvOut EXCEPT !.rgbToHex = rgbToHex(cvRgb)]
    /\ UNCHANGED <<cvRgb, fcColors, fcFormat, fcOut, dvars, fvars, qvars, kvars,
                   evars, pc, exPc, trace>>

CallRgbToHsl ==
    /\ cvOut.rgbToHsl = ""
    /\ cvOut' = [cvOut EXCEPT !.rgbToHsl = rgbToHsl(cvRgb)]
    /\ UNCHANGED <<cvRgb, fcColors, fcFormat, fcOut, dvars, fvars, qvars, kvars,
                   evars, pc, exPc, trace>>

CallRgbToOklch ==
    /\ cvOut.rgbToOklch = ""
    /\ cvOut' = [cvOut EXCEPT !.rgbToOklch = rgbToOklch(cvRgb)]
    /\ UNCHANGED <<cvRgb, fcColors, fcFormat, fcOut, dvars, fvars, qvars, kvars,
                   evars, pc, exPc, trace>>

CallRgbToHexShifted ==
    /\ cvOut.rgbToHexShifted = ""
    /\ cvOut' = [cvOut EXCEPT !.rgbToHexShifted = rgbToHexShifted(cvRgb)]
    /\ UNCHANGED <<cvRgb, fcColors, fcFormat, fcOut, dvars, fvars, qvars, kvars,
                   evars, pc, exPc, trace>>

CallRgbToHslUnwrapped ==
    /\ cvOut.rgbToHslUnwrapped = ""
    /\ cvOut' = [cvOut EXCEPT !.rgbToHslUnwrapped = rgbToHslUnwrapped(cvRgb)]
    /\ UNCHANGED <<cvRgb, fcColors, fcFormat, fcOut, dvars, fvars, qvars, kvars,
                   evars, pc, exPc, trace>>

\* Variant: the default branch returns the colours as they came.
CallFormatColorsLenient ==
    /\ fcOut.formatColors.state = "none"
    /\ fcOut' = [fcOut EXCEPT !.formatColors =
                    IF isDefaultCase(fcFormat)
                    THEN Returned(fcColors)
                    ELSE Returned(formatColors(fcColors, fcFormat))]
    /\ UNCHANGED <<cvRgb, cvOut, fcColors, fcFormat, dvars, fvars, qvars, kvars,
                   evars, pc, exPc, trace>>

\* colorFormatters, lines 26-42: the switch; its default branch throws
\* before any colour is converted.
CallFormatColors ==
    /\ fcOut.formatColors.state = "none"
    /\ fcOut' = [fcOut EXCEPT !.formatColors =
                    IF isDefaultCase(fcFormat)
                    THEN Threw(unsupportedFormat(fcFormat))
                    ELSE Returned(formatColors(fcColors, fcFormat))]
    /\ UNCHANGED <<cvRgb, cvOut, fcColors, fcFormat, dvars, fvars, qvars, kvars,
                   evars, pc, exPc, trace>>

\* convert.ts, lines 154-168.
CallFormatColorsThreeCases ==
    /\ fcOut.formatColorsThreeCases.state = "none"
    /\ fcOut' = [fcOut EXCEPT !.formatColorsThreeCases =
                    IF isDefaultOfThreeCases(fcFormat)
                    THEN Threw(unsupportedFormat(fcFormat))
                    ELSE Returned(formatColorsThreeCases(fcColors, fcFormat))]
    /\ UNCHANGED <<cvRgb, cvOut, fcColors, fcFormat, dvars, fvars, qvars, kvars,
                   evars, pc, exPc, trace>>

\* The colours filterSimilarColors is called on: three on a line, 1 apart,
\* and one at distance 5 from the first.
CandidateKinds == { <<0, 0, 0>>, <<1, 0, 0>>, <<2, 0, 0>>, <<0, 3, 4>> }
CandidateLists == UNION { [1..n -> CandidateKinds] : n \in 0..MaxCandidates }

\* Variant: a candidate is dropped when any earlier candidate, kept or not,
\* is closer than the threshold.
CallFilterAgainstAll ==
    /\ flPc = "call"
    /\ flOut' = present([i \in 1..Len(flColors) |->
                    IF \E j \in 1..(i - 1) :
                           distBelow(flColors[i], flColors[j], flThreshold)
                    THEN Absent ELSE flColors[i]])
    /\ flPc' = "returned"
    /\ UNCHANGED <<flColors, flThreshold, cvRgb, cvOut, fcColors, fcFormat, fcOut,
                   dvars, qvars, kvars, evars, pc, exPc, trace>>

\* utils, lines 58-75: filterSimilarColors.
CallFilterSimilarColors ==
    /\ flPc = "call"
    /\ flOut' = filterSimilarColors(flColors, flThreshold)
    /\ flPc' = "returned"
    /\ UNCHANGED <<flColors, flThreshold, cvRgb, cvOut, fcColors, fcFormat, fcOut,
                   dvars, qvars, kvars, evars, pc, exPc, trace>>

\* The vectors dist is called on: up to four entries, undefined among them.
Vectors ==
    UNION { [1..n -> {0, 255, undefined}] : n \in 0..4 }

\* utils, lines 18-27: dist, returning the square root of dsOut.
CallDist ==
    /\ dsPc = "call"
    /\ dsOut' = distRadicand(dsA, dsB)
    /\ dsPc' = "returned"
    /\ UNCHANGED <<dsA, dsB, cvRgb, cvOut, fcColors, fcFormat, fcOut, fvars, qvars, kvars,
                   evars, pc, exPc, trace>>

(***************************************************************************)
(* Specifications                                                          *)
(***************************************************************************)
\* quantize called on every buffer, maxColors and threshold of the bounds.
Init ==
    /\ data \in Buffers
    /\ maxColors \in 1..MaxK
    /\ distanceThreshold \in Thresholds
    /\ QuantizeIdle
    /\ KMeansIdle
    /\ ExtractIdle
    /\ pc = "scan"
    /\ trace = <<>>
    /\ ConvertIdle

QuantizeNext == QuantizeScan \/ QuantizeEmpty \/ QuantizeSample \/ QuantizeFilter

KMeansNext == KMeansEnter \/ KMeansIterate \/ KMeansReturn

Next == QuantizeNext \/ KMeansNext

Spec == Init /\ [][Next]_vars

\* kMeans called directly on every point list and k of the bounds.
KMeansInit ==
    /\ kmPixels \in PointLists \cup LongRunLists
    /\ kmK \in 1..MaxK
    /\ centroids = <<>>
    /\ clusters = <<>>
    /\ iter = 0
    /\ kmResult = <<>>
    /\ data = <<>>
    /\ maxColors = 0
    /\ distanceThreshold = 0
    /\ QuantizeIdle
    /\ ExtractIdle
    /\ pc = "kmEnter"
    /\ trace = <<>>
    /\ ConvertIdle

KMeansSpec == KMeansInit /\ [][KMeansNext]_vars

\* extractColors called with every argument of the choices above.
ExtractInit ==
    /\ exMaxColors \in MaxColorsChoices
    /\ exFormat \in FormatChoices
    /\ exDistance \in DistanceChoices
    /\ srcOutcome = Pending
    /\ exError = NoError
    /\ exResult = <<>>
    /\ exPc = "call"
    /\ data = <<>>
    /\ maxColors = 0
    /\ distanceThreshold = 0
    /\ QuantizeIdle
    /\ KMeansIdle
    /\ pc = "idle"
    /\ trace = <<>>
    /\ ConvertIdle

ExtractNext ==
    \/ ExtractCall
    \/ SourceResolve
    \/ SourceReject
    \/ ExtractThrow
    \/ ExtractQuantize
    \/ ExtractFormat
    \/ QuantizeNext
    \/ KMeansNext

ExtractSpec == ExtractInit /\ [][ExtractNext]_vars

\* Nothing of quantize, kMeans or extractColors is running.
PipelineIdle ==
    /\ data = <<>>
    /\ maxColors = 0
    /\ distanceThreshold = 0
    /\ QuantizeIdle
    /\ KMeansIdle
    /\ ExtractIdle
    /\ pc = "idle"
    /\ trace = <<>>

\* The converters of convert.ts called on every array above.
ConvertInit ==
    /\ cvRgb \in Arrays
    /\ cvOut = NoOutput
    /\ fcColors = <<>>
    /\ fcFormat = "rgb"
    /\ fcOut = NoCalls
    /\ DistIdle
    /\ FilterIdle
    /\ PipelineIdle

ConvertNext == CallRgbToHex \/ CallRgbToHsl \/ CallRgbToOklch

ConvertSpec == ConvertInit /\ [][ConvertNext]_vars

\* The converters of convert.ts and of quantization.ts called on every
\* triplet of bytes above.
TripletInit ==
    /\ cvRgb \in ByteTriplets
    /\ cvOut = NoOutput
    /\ fcColors = <<>>
    /\ fcFormat = "rgb"
    /\ fcOut = NoCalls
    /\ DistIdle
    /\ FilterIdle
    /\ PipelineIdle

TripletNext == ConvertNext \/ CallRgbToHexShifted \/ CallRgbToHslUnwrapped

TripletSpec == TripletInit /\ [][TripletNext]_vars

\* Both formatColors called on every list and every format of the choices.
FormatInit ==
    /\ fcColors \in ColourLists
    /\ fcFormat \in FormatChoices
    /\ fcOut = NoCalls
    /\ cvRgb = <<>>
    /\ cvOut = NoOutput
    /\ DistIdle
    /\ FilterIdle
    /\ PipelineIdle

FormatNext == CallFormatColors \/ CallFormatColorsThreeCases

FormatSpec == FormatInit /\ [][FormatNext]_vars

\* dist called on every pair of the vectors above.
DistInit ==
    /\ dsA \in Vectors
    /\ dsB \in Vectors
    /\ dsOut = 0
    /\ dsPc = "call"
    /\ FilterIdle
    /\ cvRgb = <<>>
    /\ cvOut = NoOutput
    /\ fcColors = <<>>
    /\ fcFormat = "rgb"
    /\ fcOut = NoCalls
    /\ PipelineIdle

DistNext == CallDist

DistSpec == DistInit /\ [][DistNext]_vars

(***************************************************************************)
(* Specification of filterSimilarColors called on lists of colours         *)
(***************************************************************************)
FilterInit ==
    /\ flColors \in CandidateLists
    /\ flThreshold \in Thresholds
    /\ flOut = <<>>
    /\ flPc = "call"
    /\ DistIdle
    /\ cvRgb = <<>>
    /\ cvOut = NoOutput
    /\ fcColors = <<>>
    /\ fcFormat = "rgb"
    /\ fcOut = NoCalls
    /\ PipelineIdle

FilterNext == CallFilterSimilarColors

FilterSpec == FilterInit /\ [][FilterNext]_vars

(***************************************************************************)
(* Definitions the properties are stated with                              *)
(***************************************************************************)
Range(s) == { s[i] : i \in DOMAIN s }

\* The squared Euclidean distance of two RGB colours.
SquaredDistance(a, b) ==
    (a[1] - b[1]) * (a[1] - b[1]) + (a[2] - b[2]) * (a[2] - b[2])
        + (a[3] - b[3]) * (a[3] - b[3])

\* The Euclidean distance of a and b is at least t.
AtLeastApart(a, b, t) == t <= 0 \/ SquaredDistance(a, b) >= t * t

\* The pixels of a buffer: pixel p occupies bytes 4p-3 .. 4p.
PixelCount(buffer) == Len(buffer) \div 4
AlphaOf(buffer, p) == buffer[4 * p]
ColourOf(buffer, p) == <<buffer[4 * p - 3], buffer[4 * p - 2], buffer[4 * p - 1]>>
VisibleIndices(buffer) ==
    SelectSeq([p \in 1..PixelCount(buffer) |-> p], LAMBDA p : AlphaOf(buffer, p) >= 16)
\* The RGB colours of the pixels with alpha >= 16, in buffer order.
VisibleColours(buffer) ==
    [j \in 1..Len(VisibleIndices(buffer)) |-> ColourOf(buffer, VisibleIndices(buffer)[j])]
\* The buffer with every pixel of alpha < 16 removed.
WithoutTransparent(buffer) ==
    Flatten([j \in 1..Len(VisibleIndices(buffer)) |->
                SubSeq(buffer, 4 * VisibleIndices(buffer)[j] - 3, 4 * VisibleIndices(buffer)[j])])

Occurrences(s, x) == Cardinality({ i \in DOMAIN s : s[i] = x })

(***************************************************************************)
(* C1 - C7: quantize and kMeans                                            *)
(***************************************************************************)
\* C1: any two entries at different positions of the palette quantize returns
\* are at Euclidean RGB distance >= the threshold.
C1_PaletteSeparated ==
    pc = "done" =>
        \A i, j \in 1..Len(palette) :
            i # j => AtLeastApart(palette[i], palette[j], distanceThreshold)

\* The filter dropped a centroid and kept at least two.
C1_Witness ==
    /\ pc = "done"
    /\ distanceThreshold > 0
    /\ Len(palette) >= 2
    /\ Len(palette) < Len(kmResult)

\* C2: the palette has at most maxColors entries and never more entries than
\* the buffer has visible pixels, sampled or not.
C2_PaletteBounded ==
    pc = "done" =>
        /\ Len(palette) <= maxColors
        /\ Len(palette) <= Len(VisibleColours(data))

\* Sampling took place and the palette is as long as it may be.
C2_Witness ==
    /\ pc = "done"
    /\ Len(VisibleColours(data)) > MAX_SAMPLE_SIZE
    /\ Len(palette) = maxColors
    /\ maxColors >= 2

\* C3: the number of points handed to kMeans never exceeds the sample cap.
C3_SampleCapped == Len(kmPixels) <= MAX_SAMPLE_SIZE /\ Len(sampled) <= MAX_SAMPLE_SIZE

\* kMeans was handed a sample of a buffer with more visible pixels than the cap.
C3_Witness ==
    /\ pc = "kmEnter"
    /\ Len(VisibleColours(data)) > MAX_SAMPLE_SIZE
    /\ Len(kmPixels) = MAX_SAMPLE_SIZE

\* C4: a pixel is kept exactly when its alpha is >= 16, and without sampling
\* quantize returns what it returns on the buffer without the dropped pixels.
C4_VisibleFromAlpha16 ==
    /\ pc # "scan" => pixels = VisibleColours(data)
    /\ (pc = "done" /\ Len(VisibleColours(data)) <= MAX_SAMPLE_SIZE) =>
           palette = quantizeUnsampled(WithoutTransparent(data), maxColors,
                                       distanceThreshold)

\* A buffer with a pixel of alpha 15, dropped, and one of alpha 16, kept.
C4_Witness ==
    /\ pc = "done"
    /\ \E p \in 1..PixelCount(data) : AlphaOf(data, p) = 15
    /\ \E p \in 1..PixelCount(data) : AlphaOf(data, p) = 16
    /\ Len(pixels) <= MAX_SAMPLE_SIZE
    /\ Len(pixels) < PixelCount(data)
    /\ palette # <<>>

\* C5: with no visible pixel quantize returns the empty palette, and neither
\* kMeans nor the similarity filter is called.
C5_EmptyWithoutClustering ==
    Len(VisibleColours(data)) = 0 =>
        /\ pc \in {"scan", "scanned", "done"}
        /\ trace = <<>>
        /\ kmPixels = <<>>
        /\ pc = "done" => palette = <<>>

\* quantize has returned on a non-empty buffer without a visible pixel.
C5_Witness ==
    /\ pc = "done"
    /\ PixelCount(data) >= 2
    /\ Len(VisibleColours(data)) = 0

\* The first m visible pixels are pairwise at distance >= the threshold and
\* every visible pixel has the colour of one of them.
C6_Separated(v, m, t) ==
    /\ \A i, j \in 1..m : i # j => AtLeastApart(v[i], v[j], t)
    /\ \A p \in 1..Len(v) : \E i \in 1..m : v[p] = v[i]

\* C6: under C6_Separated, with no more visible pixels than the cap, quantize
\* returns the first min(maxColors, n) visible colours in order; a single
\* visible pixel yields its colour, and the test buffer yields red and green.
C6_SeparatedColoursReturned ==
    pc = "done" =>
        LET v == VisibleColours(data)
            m == Min(maxColors, Len(v))
        IN  /\ (Len(v) <= MAX_SAMPLE_SIZE /\ C6_Separated(v, m, distanceThreshold))
                   => palette = SubSeq(v, 1, m)
            /\ Len(v) = 1 => palette = <<v[1]>>
            /\ (/\ data = <<255, 0, 0, 255,  0, 255, 0, 255,  0, 0, 255, 0,  255, 0, 0, 255>>
                /\ maxColors = 2
                /\ distanceThreshold = 5)
                   => (Len(palette) = 2 /\ Range(palette) = {Red, Green})

\* More visible pixels than colours asked for, two colours exactly the
\* threshold apart.
C6_Witness ==
    /\ pc = "done"
    /\ Len(pixels) = 3
    /\ maxColors = 2
    /\ distanceThreshold = 1
    /\ C6_Separated(pixels, 2, 1)
    /\ SquaredDistance(pixels[1], pixels[2]) = 1

\* C7 as stated: asked for more clusters than there are distinct points,
\* kMeans returns at most that many centroids, each a colour of the input.
C7_AsStated ==
    (pc = "kmDone" /\ kmK > Cardinality(Range(kmPixels))) =>
        /\ Len(kmResult) <= Cardinality(Range(kmPixels))
        /\ \A i \in 1..Len(kmResult) : kmResult[i] \in Range(kmPixels)

\* C7, amended: asked for at least as many clusters as there are points,
\* kMeans returns at most as many centroids as points, each a colour of the
\* input.
C7_NoFabricatedColours ==
    (pc = "kmDone" /\ kmK >= Len(kmPixels)) =>
        /\ Len(kmResult) <= Len(kmPixels)
        /\ \A i \in 1..Len(kmResult) : kmResult[i] \in Range(kmPixels)

\* More clusters than points, and a colour that occurs twice.
C7_Witness ==
    /\ pc = "kmDone"
    /\ kmK > Len(kmPixels)
    /\ Len(kmPixels) = 2
    /\ Cardinality(Range(kmPixels)) = 1
    /\ Len(kmResult) = 2

(***************************************************************************)
(* C8 - C10: extractColors                                                 *)
(***************************************************************************)
\* maxColors is 0, negative or no integer; format is none of the four.
BadMaxColors == exMaxColors.tag # "int" \/ exMaxColors.val < 1
BadFormat == exFormat \notin {"rgb", "hex", "hsl", "oklch"}

\* C8: a call with a bad maxColors or an unsupported format is rejected with
\* an error, and the pixel source, quantize and formatColors are never called.
C8_InvalidArgumentsRejected ==
    (BadMaxColors \/ BadFormat) =>
        /\ exPc \in {"call", "rejected"}
        /\ exPc = "rejected" => exError # NoError
        /\ trace = <<>>
        /\ pc = "idle"
        /\ srcOutcome = Pending
        /\ exResult = <<>>

\* A non-integer maxColors was rejected.
C8_Witness ==
    /\ exPc = "rejected"
    /\ exMaxColors.tag \in {"frac", "nan", "inf"}
    /\ exMaxColors.val > 0
    /\ exError # NoError

\* C9 as stated: every invalid-argument failure names the invalid value.
C9_AsStated ==
    (exPc = "rejected" /\ srcOutcome = Pending) =>
        /\ BadMaxColors => exMaxColors.str \in Range(exError)
        /\ (~BadMaxColors /\ BadFormat) => exFormat \in Range(exError)

\* C9, amended: an unsupported-format failure names the format; a bad
\* maxColors fails with the one fixed message, whatever the value.
C9_FormatNamed ==
    (exPc = "rejected" /\ srcOutcome = Pending) =>
        /\ (~BadMaxColors /\ BadFormat) =>
               /\ exFormat \in Range(exError)
               /\ exError[1] = "Unsupported color format: "
        /\ BadMaxColors =>
               exError = <<"maxColors must be a positive integer greater than ", "0", ".">>

\* An unsupported format was rejected.
C9_Witness ==
    /\ exPc = "rejected"
    /\ exFormat = "cmyk"
    /\ ~BadMaxColors
    /\ exError = <<"Unsupported color format: ", "cmyk">>

\* The position of the first call of f in the trace, 0 if there is none.
FirstCall(f) ==
    IF f \in Range(trace) THEN CHOOSE i \in 1..Len(trace) : trace[i] = f /\ \A j \in 1..(i - 1) : trace[j] # f
    ELSE 0

\* C10: with valid arguments the pixel source is called exactly once;
\* quantize starts only after it has delivered and formatColors only after
\* quantize has returned; a failure of the pixel source reaches the caller
\* unchanged and neither quantize nor formatColors runs.
C10_SequentialPipeline ==
    (~BadMaxColors /\ ~BadFormat) =>
        /\ Occurrences(trace, "getImageDataFromFile") = (IF exPc = "call" THEN 0 ELSE 1)
        /\ Occurrences(trace, "quantize") <= 1
        /\ Occurrences(trace, "formatColors") <= 1
        /\ "quantize" \in Range(trace) =>
               /\ srcOutcome.state = "fulfilled"
               /\ data = srcOutcome.value
               /\ FirstCall("getImageDataFromFile") < FirstCall("quantize")
        /\ "formatColors" \in Range(trace) =>
               /\ pc = "done"
               /\ FirstCall("quantize") < FirstCall("formatColors")
               /\ exPc = "resolved"
        /\ srcOutcome.state = "rejected" =>
               /\ Range(trace) = {"getImageDataFromFile"}
               /\ exPc \in {"await", "rejected"}
               /\ pc = "idle"
               /\ exPc = "rejected" => exError = srcOutcome.value
        /\ exPc = "rejected" => srcOutcome.state = "rejected"
        /\ exPc = "resolved" => "formatColors" \in Range(trace)

\* A run that went through the whole pipeline.
C10_Witness ==
    /\ exPc = "resolved"
    /\ trace = <<"getImageDataFromFile", "quantize", "kMeans", "filterSimilarColors",
                 "formatColors">>
    /\ exFormat = "hex"
    /\ Len(exResult) = 2

\* A run in which the pixel source failed.
C10_WitnessFailure ==
    /\ exPc = "rejected"
    /\ srcOutcome.state = "rejected"
    /\ exError = srcOutcome.value

\* C11: the palette returned by quantize holds pairwise distinct colours, for
\* every buffer, every maxColors and every distance threshold, zero and
\* negative thresholds included.  filterSimilarColors drops a colour only when
\* dist(colour, kept) < threshold, which no distance satisfies once the
\* threshold is 0 or less, so repeated centroids stay in the palette.
C11_PaletteDistinct ==
    pc = "done" =>
        \A i \in DOMAIN palette : \A j \in DOMAIN palette :
            i # j => palette[i] # palette[j]

\* C12: kMeans is deterministic, what it returns is a function of the ordered
\* points and of k; quantize is deterministic whenever the visible pixels do
\* not exceed the sample cap, and beyond the cap its palette is a function of
\* the sample the shuffle produced, the shuffle being the only choice made.
C12_Deterministic ==
    /\ pc \in {"kmDone", "done"} /\ pixels # <<>> =>
           kmResult = kMeans(kmPixels, kmK)
    /\ pc = "done" /\ pixels # <<>> =>
           palette = filterSimilarColors(kMeans(sampled, maxColors), distanceThreshold)
    /\ pc = "done" /\ ~needsSampling(pixels) =>
           palette = quantizeUnsampled(data, maxColors, distanceThreshold)

\* An unsampled run whose clustering moved a centroid before it settled.
C12_Witness ==
    /\ pc = "done"
    /\ ~needsSampling(pixels)
    /\ Len(pixels) = 3
    /\ iter >= 1
    /\ Len(palette) = 2
    /\ palette = quantizeUnsampled(data, maxColors, distanceThreshold)

\* The outcome out of a formatColors is the one described for fcFormat: the
\* list itself for 'rgb', and for 'hex', 'hsl' and 'oklch' a list as long as
\* the input whose i-th entry is the converter applied to the i-th colour.
FormattedAsDescribed(out) ==
    /\ out.state = "returned"
    /\ Len(out.value) = Len(fcColors)
    /\ fcFormat = "rgb" => out.value = fcColors
    /\ fcFormat = "hex" =>
           \A i \in 1..Len(fcColors) : out.value[i] = rgbToHex(fcColors[i])
    /\ fcFormat = "hsl" =>
           \A i \in 1..Len(fcColors) : out.value[i] = rgbToHsl(fcColors[i])
    /\ fcFormat = "oklch" =>
           \A i \in 1..Len(fcColors) : out.value[i] = rgbToOklch(fcColors[i])

C14_UnknownFormatThrows ==
    (fcOut.formatColors.state # "none" /\ fcFormat \notin {"rgb", "hex", "hsl", "oklch"}) =>
        /\ fcOut.formatColors.state = "threw"
        /\ fcOut.formatColors.value = <<>>
        /\ Len(fcOut.formatColors.error) >= 1
        /\ SubSeq(fcOut.formatColors.error[1], 1, 24) = "Unsupported color format"
        /\ fcFormat \in Range(fcOut.formatColors.error)

\* formatColors was called with 'cmyk' on two colours.
C14_Witness ==
    /\ fcFormat = "cmyk"
    /\ Len(fcColors) = 2
    /\ fcOut.formatColors.state = "threw"

\* The i-th character of a string.
CharAt(str, i) == SubSeq(str, i, i)
IsLowerHexDigit(c) == \E v \in 1..16 : HexDigits[v] = c
HexDigitValue(c) == CHOOSE v \in 0..15 : HexDigits[v + 1] = c
\* The byte written by the two characters of str at i and i + 1.
ParsePair(str, i) == 16 * HexDigitValue(CharAt(str, i)) + HexDigitValue(CharAt(str, i + 1))
\* '#' followed by exactly six lowercase hexadecimal digits.
IsHexColour(str) ==
    /\ Len(str) = 7
    /\ CharAt(str, 1) = "#"
    /\ \A i \in 2..7 : IsLowerHexDigit(CharAt(str, i))
IsByteTriplet(rgb) == Len(rgb) = 3 /\ \A i \in 1..3 : rgb[i] \in 0..255

\* C15: for every triplet of integers in [0,255], rgbToHex (the one of
\* convert.ts and the one of quantization.ts) returns '#' followed by exactly
\* six lowercase hexadecimal digits, and reading the three pairs of digits
\* back gives r, g and b.
C15_HexRoundTrip ==
    \A name \in {"rgbToHex", "rgbToHexShifted"} :
        (cvOut[name] # "" /\ IsByteTriplet(cvRgb)) =>
            /\ IsHexColour(cvOut[name])
            /\ \A i \in 1..3 : ParsePair(cvOut[name], 2 * i) = cvRgb[i]

\* Both functions converted a triplet with a channel below 16.
C15_Witness ==
    /\ cvRgb = <<10, 245, 70>>
    /\ cvOut.rgbToHex = "#0af546"
    /\ cvOut.rgbToHexShifted = "#0af546"

\* The byte the claim expects for the i-th channel of an array: 0 for a
\* channel that is missing or not finite, the nearest byte otherwise.
ExpectedByte(rgb, i) ==
    IF i > Len(rgb) THEN 0
    ELSE IF rgb[i] \in {NaN, PositiveInfinity, NegativeInfinity, undefined} THEN 0
    ELSE IF rgb[i] < 0 THEN 0
    ELSE IF rgb[i] > 255 THEN 255
    ELSE rgb[i]

\* C16: rgbToHex clamps each channel into [0,255]: an integer x is written as
\* the byte min(255, max(0, x)), a missing or non-finite channel as 00, and
\* the string always has 7 characters.
C16_HexClamped ==
    cvOut.rgbToHex # "" =>
        /\ IsHexColour(cvOut.rgbToHex)
        /\ \A i \in 1..3 : ParsePair(cvOut.rgbToHex, 2 * i) = ExpectedByte(cvRgb, i)

\* The call of the test 'handles invalid input gracefully'.
C16_Witness ==
    /\ cvRgb = <<undefined, 100, 100>>
    /\ cvOut.rgbToHex = "#006464"

\* A channel above 255 and a channel below 0 were written.
C16_WitnessOutOfRange ==
    /\ cvRgb \in {<<275, 100, 100>>, <<-20, 100, 100>>}
    /\ cvOut.rgbToHex \in {"#ff6464", "#006464"}

\* The string holds the letters NaN.
ContainsNaN(str) == \E i \in 1..(Len(str) - 2) : SubSeq(str, i, i + 2) = "NaN"

\* The array with every missing or non-finite channel replaced by 0.
Sanitized(rgb) ==
    [i \in 1..3 |->
        IF i <= Len(rgb) /\ rgb[i] \notin {NaN, PositiveInfinity, NegativeInfinity, undefined}
        THEN rgb[i] ELSE 0]

\* C17: in rgbToHex, rgbToHsl and rgbToOklch a channel that is NaN,
\* undefined, missing or not finite counts as 0 before any arithmetic: the
\* result is the one of the array with 0 in its place, and never holds NaN.
\* rgbToHsl passes a NaN channel through clamp01 into all three numbers and
\* takes Infinity for the full channel; rgbToOklch maps the entries the
\* array has and computes with undefined when there are fewer than three.
C17_NonFiniteAsZero ==
    /\ cvOut.rgbToHex # "" =>
           /\ ~ContainsNaN(cvOut.rgbToHex)
           /\ cvOut.rgbToHex = rgbToHex(Sanitized(cvRgb))
    /\ cvOut.rgbToHsl # "" =>
           /\ ~ContainsNaN(cvOut.rgbToHsl)
           /\ cvOut.rgbToHsl = rgbToHsl(Sanitized(cvRgb))
    /\ cvOut.rgbToOklch # "" =>
           /\ ~ContainsNaN(cvOut.rgbToOklch)
           /\ cvOut.rgbToOklch = rgbToOklch(Sanitized(cvRgb))

\* The parts of C17 taken one at a time.
C17_HexOnly ==
    cvOut.rgbToHex # "" =>
        ~ContainsNaN(cvOut.rgbToHex) /\ cvOut.rgbToHex = rgbToHex(Sanitized(cvRgb))
C17_HslNoNaN == cvOut.rgbToHsl # "" => ~ContainsNaN(cvOut.rgbToHsl)
C17_HslAsZero == cvOut.rgbToHsl # "" /\ NaN \notin Range(cvRgb) =>
                     cvOut.rgbToHsl = rgbToHsl(Sanitized(cvRgb))
C17_OklchNoNaN == cvOut.rgbToOklch # "" => ~ContainsNaN(cvOut.rgbToOklch)

IsDigit(c) == c \in {"0", "1", "2", "3", "4", "5", "6", "7", "8", "9"}

\* The longest run of decimal digits a string starts with.
RECURSIVE TakeDigits(_)
TakeDigits(str) ==
    IF str # "" /\ IsDigit(Head(str)) THEN Head(str) \o TakeDigits(Tail(str)) ELSE ""

\* The number a run of decimal digits writes.
RECURSIVE DecimalValue(_)
DecimalValue(digits) ==
    IF digits = "" THEN 0
    ELSE 10 * DecimalValue(SubSeq(digits, 1, Len(digits) - 1))
             + HexDigitValue(CharAt(digits, Len(digits)))

\* A string without its first n characters.
Drop(str, n) == IF n >= Len(str) THEN "" ELSE SubSeq(str, n + 1, Len(str))

\* A string read as 'hsl(H, S%, L%)': ok says that it has exactly this shape
\* with H, S and L written as non-negative integers without leading zeros.
HslFields(str) ==
    LET afterOpen == Drop(str, 4)
        h == TakeDigits(afterOpen)
        afterH == Drop(afterOpen, Len(h) + 2)
        sat == TakeDigits(afterH)
        afterS == Drop(afterH, Len(sat) + 3)
        l == TakeDigits(afterS)
    IN  [ ok |-> /\ h # "" /\ sat # "" /\ l # ""
                 /\ str = "hsl(" \o h \o ", " \o sat \o "%, " \o l \o "%)"
                 /\ ToString(DecimalValue(h)) = h
                 /\ ToString(DecimalValue(sat)) = sat
                 /\ ToString(DecimalValue(l)) = l,
          h |-> DecimalValue(h),
          s |-> DecimalValue(sat),
          l |-> DecimalValue(l) ]

\* The string is 'hsl(H, S%, L%)' with H in [0,360) and S, L in [0,100].
IsHslInRange(str) ==
    /\ HslFields(str).ok
    /\ HslFields(str).h \in 0..359
    /\ HslFields(str).s \in 0..100
    /\ HslFields(str).l \in 0..100

\* C18: for every triplet of integers in [0,255], rgbToHsl returns
\* 'hsl(H, S%, L%)' with integers H in [0,360), a hue that rounds to 360
\* being written 0, and S and L in [0,100].  The rgbToHsl of quantization.ts
\* writes Math.round(h) as it is, 360 included.
C18_HslInRange ==
    \A name \in {"rgbToHsl", "rgbToHslUnwrapped"} :
        (cvOut[name] # "" /\ IsByteTriplet(cvRgb)) => IsHslInRange(cvOut[name])

\* The same of the rgbToHsl of convert.ts alone, which holds.
C18_WrappedInRange ==
    (cvOut.rgbToHsl # "" /\ IsByteTriplet(cvRgb)) => IsHslInRange(cvOut.rgbToHsl)

\* A hue of 359.76 degrees, written 0 by one rgbToHsl and 360 by the other.
C18_WitnessWrap ==
    /\ cvRgb = <<255, 0, 1>>
    /\ cvOut.rgbToHsl = "hsl(0, 100%, 50%)"
    /\ cvOut.rgbToHslUnwrapped = "hsl(360, 100%, 50%)"

\* n is a nearest integer of num / den, den > 0.
Nearest(n, num, den) == (2 * n - 1) * den <= 2 * num /\ 2 * num <= (2 * n + 1) * den

\* The usual formula: with M and m the largest and the smallest channel and
\* C = M - m, the hue is 60 * (((g - b) / C) mod 6) when M = r,
\* 60 * ((b - r) / C + 2) when M = g and 60 * ((r - g) / C + 4) otherwise;
\* the lightness is (M + m) / 2 and the saturation C / (1 - |2L - 1|), both
\* on the scale on which a channel of 255 is 1.
StandardHueTimesC(rgb) ==
    LET M == Max3(rgb[1], rgb[2], rgb[3])
        C == M - Min3(rgb[1], rgb[2], rgb[3])
    IN  IF M = rgb[1] THEN (60 * (rgb[2] - rgb[3])) % (360 * C)
        ELSE IF M = rgb[2] THEN 60 * (rgb[3] - rgb[1]) + 120 * C
        ELSE 60 * (rgb[1] - rgb[2]) + 240 * C

AgreesWithStandard(str, rgb) ==
    LET M == Max3(rgb[1], rgb[2], rgb[3])
        m == Min3(rgb[1], rgb[2], rgb[3])
        C == M - m
        f == HslFields(str)
    IN  /\ f.ok
        /\ f.h \in 0..359
        /\ IF C = 0
           THEN f.h = 0 /\ f.s = 0
           ELSE /\ \/ Nearest(f.h, StandardHueTimesC(rgb), C)
                   \/ f.h = 0 /\ Nearest(360, StandardHueTimesC(rgb), C)
                /\ Nearest(f.s, 100 * C, 255 - Abs(M + m - 255))
        /\ Nearest(f.l, 100 * (M + m), 510)

\* C19: rgbToHsl gives the usual RGB-to-HSL formula rounded to a nearest
\* integer; red, green and blue give hsl(0, 100%, 50%), hsl(120, 100%, 50%)
\* and hsl(240, 100%, 50%), black hsl(0, 0%, 0%), white hsl(0, 0%, 100%), and
\* every grey has hue 0 and saturation 0.
C19_StandardHsl ==
    (cvOut.rgbToHsl # "" /\ IsByteTriplet(cvRgb)) =>
        /\ AgreesWithStandard(cvOut.rgbToHsl, cvRgb)
        /\ cvRgb = <<255, 0, 0>> => cvOut.rgbToHsl = "hsl(0, 100%, 50%)"
        /\ cvRgb = <<0, 255, 0>> => cvOut.rgbToHsl = "hsl(120, 100%, 50%)"
        /\ cvRgb = <<0, 0, 255>> => cvOut.rgbToHsl = "hsl(240, 100%, 50%)"
        /\ cvRgb = <<0, 0, 0>> => cvOut.rgbToHsl = "hsl(0, 0%, 0%)"
        /\ cvRgb = <<255, 255, 255>> => cvOut.rgbToHsl = "hsl(0, 0%, 100%)"
        /\ (cvRgb[1] = cvRgb[2] /\ cvRgb[2] = cvRgb[3]) =>
               HslFields(cvOut.rgbToHsl).h = 0 /\ HslFields(cvOut.rgbToHsl).s = 0

\* A colour whose three numbers all needed rounding: [1, 255, 9] has hue
\* 121.89, saturation 100 and lightness 50.2.
C19_Witness ==
    /\ cvRgb = <<1, 255, 9>>
    /\ cvOut.rgbToHsl = "hsl(122, 100%, 50%)"

\* A hue of exactly 122.5 degrees, whose double is just below and is written 122.
C19_WitnessHalfway ==
    /\ cvRgb = <<0, 24, 1>>
    /\ cvOut.rgbToHsl = "hsl(122, 100%, 5%)"

\* A grey.
C19_WitnessGrey ==
    /\ cvRgb = <<128, 128, 128>>
    /\ cvOut.rgbToHsl = "hsl(0, 0%, 50%)"

\* The i-th component of a vector, 0 when the vector has none.
ComponentOrZero(v, i) == IF i <= Len(v) /\ v[i] # undefined THEN v[i] ELSE 0

\* The sum of the squared differences of the first three components, a
\* missing component counting as 0.
SumOverRgb(a, b) ==
    (ComponentOrZero(a, 1) - ComponentOrZero(b, 1)) * (ComponentOrZero(a, 1) - ComponentOrZero(b, 1))
      + (ComponentOrZero(a, 2) - ComponentOrZero(b, 2)) * (ComponentOrZero(a, 2) - ComponentOrZero(b, 2))
      + (ComponentOrZero(a, 3) - ComponentOrZero(b, 3)) * (ComponentOrZero(a, 3) - ComponentOrZero(b, 3))

\* C20: dist(a, b) is the Euclidean distance over exactly the three RGB
\* components: a fourth component is ignored, and a component missing from
\* either vector counts as 0, a shorter vector being compared as if padded
\* with zeros.  dist sums over i < min(a.length, b.length): a fourth
\* component both vectors have is part of the sum, and the components only
\* the longer vector has are left out of it.
C20_ThreeComponentsZeroPadded ==
    dsPc = "returned" => dsOut = SumOverRgb(dsA, dsB)

\* What holds instead: the sum runs over the positions both vectors have,
\* an undefined entry counting as 0.
C20_CommonPrefix ==
    dsPc = "returned" =>
        \E n \in 0..4 :
            /\ n <= Len(dsA) /\ n <= Len(dsB) /\ (n = Len(dsA) \/ n = Len(dsB))
            /\ dsOut = distSum([i \in 1..n |-> ComponentOrZero(dsA, i)],
                               [i \in 1..n |-> ComponentOrZero(dsB, i)], 0, n)

\* Two colours that differ in alpha only, at distance 255.
C20_WitnessAlpha ==
    /\ dsPc = "returned"
    /\ dsA = <<0, 0, 0, 0>>
    /\ dsB = <<0, 0, 0, 255>>
    /\ dsOut = 255 * 255

\* A vector of one component against one of three, at distance 0.
C20_WitnessShorter ==
    /\ dsPc = "returned"
    /\ dsA = <<255, 255, 0>>
    /\ dsB = <<255>>
    /\ dsOut = 0

\* C21: dist(a, a) = 0 and dist(a, b) = dist(b, a), for all a and b.  The
\* square root is 0 exactly when the sum under it is, and two square roots
\* are equal exactly when the sums are.
C21_ZeroOnSelfAndSymmetric ==
    dsPc = "returned" =>
        /\ dsA = dsB => dsOut = 0
        /\ dsOut = distRadicand(dsB, dsA)

\* Two different colours, at the distance of the test, sqrt(255^2 + 255^2).
C21_Witness ==
    /\ dsPc = "returned"
    /\ dsA = <<255, 0, 0>>
    /\ dsB = <<0, 255, 0>>
    /\ dsOut = 2 * 255 * 255

\* A colour against itself.
C21_WitnessSelf ==
    /\ dsPc = "returned"
    /\ dsA = <<255, 0, 255>>
    /\ dsB = dsA
    /\ dsOut = 0

(***************************************************************************)
(* C22 - C26: the run of kMeans                                            *)
(***************************************************************************)
\* The slots of the centroid array that hold a centroid.
Live(cs) == { i \in 1..Len(cs) : cs[i] # Absent }
InLoop == pc \in {"kmLoop", "kmReturn"}

C22_WitnessFewer ==
    /\ pc = "kmDone"
    /\ 0 < Len(kmPixels)
    /\ Len(kmPixels) < kmK
    /\ Len(kmResult) = Len(kmPixels)

\* The slot of the centroid nearest to a point, the lowest of several.
NearestSlot(point, cs) ==
    CHOOSE i \in Live(cs) :
        \A j \in Live(cs) :
            \/ SquaredDistance(point, cs[i]) < SquaredDistance(point, cs[j])
            \/ /\ SquaredDistance(point, cs[i]) = SquaredDistance(point, cs[j])
               /\ i <= j

RECURSIVE PointsNearest(_, _, _)
\* The points from index p on whose nearest slot is i, in their order.
PointsNearest(i, cs, p) ==
    IF p > Len(kmPixels) THEN <<>>
    ELSE IF NearestSlot(kmPixels[p], cs) = i
         THEN <<kmPixels[p]>> \o PointsNearest(i, cs, p + 1)
         ELSE PointsNearest(i, cs, p + 1)

RECURSIVE TotalLen(_, _)
TotalLen(cl, i) == IF i > Len(cl) THEN 0 ELSE Len(cl[i]) + TotalLen(cl, i + 1)

\* C23: a pass puts every point into exactly one cluster, that of the
\* centroid at the smallest squared distance, the lowest slot winning a tie;
\* a slot without a centroid is never chosen and its cluster stays empty.
C23_NearestLiveCentroid ==
    [][ pc = "kmLoop" =>
            /\ clusters' = [i \in 1..kmK |-> PointsNearest(i, centroids, 1)]
            /\ TotalLen(clusters', 1) = Len(kmPixels)
            /\ \A i \in 1..kmK : centroids[i] = Absent => clusters'[i] = <<>>
      ]_vars

\* Two equal points and k = 2: both centroids are equally near to each point,
\* and both points are in the cluster of the first.
C23_Witness ==
    /\ InLoop
    /\ kmK = 2
    /\ kmPixels = << <<10, 0, 0>>, <<10, 0, 0>> >>
    /\ clusters = << kmPixels, <<>> >>

\* Three different points and k = 2: the third point joins the nearer of the
\* two centroids, which is the second.
C23_WitnessNearer ==
    /\ InLoop
    /\ kmK = 2
    /\ kmPixels = << <<0, 0, 0>>, <<255, 0, 0>>, <<10, 0, 0>>, <<255, 0, 0>> >>
    /\ clusters = << << <<0, 0, 0>>, <<10, 0, 0>> >>,
                     << <<255, 0, 0>>, <<255, 0, 0>> >> >>

\* A slot without a centroid, and its empty cluster.
C23_WitnessAbsent ==
    /\ InLoop
    /\ kmK > Len(kmPixels)
    /\ centroids[kmK] = Absent
    /\ clusters # <<>>
    /\ clusters[kmK] = <<>>

RECURSIVE ComponentSum(_, _, _)
\* The sum of component ch over the first m points of a cluster.
ComponentSum(cluster, ch, m) ==
    IF m = 0 THEN 0 ELSE ComponentSum(cluster, ch, m - 1) + cluster[m][ch]

\* r is s / n rounded to the nearest integer, a half going up:
\* r - 1/2 <= s / n < r + 1/2.
IsRoundedQuotient(r, s, n) ==
    /\ r \in Int
    /\ 2 * n * r - n <= 2 * s
    /\ 2 * s < 2 * n * r + n

\* C24: after a pass, the centroid of a non-empty cluster is, component by
\* component, the mean of the points of the cluster rounded to the nearest
\* integer, a half going up, and the centroid of an empty cluster is the one
\* it was before the pass.
C24_RoundedMeanOrKept ==
    [][ pc = "kmLoop" =>
            \A i \in 1..kmK :
                IF clusters'[i] # <<>>
                THEN /\ Len(centroids'[i]) = 3
                     /\ \A ch \in 1..3 :
                            IsRoundedQuotient(centroids'[i][ch],
                                ComponentSum(clusters'[i], ch, Len(clusters'[i])),
                                Len(clusters'[i]))
                ELSE centroids'[i] = centroids[i]
      ]_vars

\* Black and red in one cluster: the mean 127.5 becomes 128.
C24_Witness ==
    /\ InLoop
    /\ kmK = 1
    /\ clusters = << << <<0, 0, 0>>, <<255, 0, 0>> >> >>
    /\ centroids = << <<128, 0, 0>> >>

\* The first centroid moved to the mean of the four points, 66.25 rounded
\* down, and the second, whose cluster was empty, stayed where it was.
C24_WitnessKept ==
    /\ InLoop
    /\ kmK = 2
    /\ Len(clusters) = 2
    /\ kmPixels = << <<0, 0, 0>>, <<0, 0, 0>>, <<10, 0, 0>>, <<255, 0, 0>> >>
    /\ clusters[2] = <<>>
    /\ centroids[2] = <<0, 0, 0>>
    /\ centroids[1] = <<66, 0, 0>>

\* One more pass would change a centroid.
WouldChange == ~iteration(kmPixels, kmK, centroids).converged

\* What is left of a call of kMeans: the steps before the loop, in it and
\* after it, and the passes the cap still allows.
Remaining ==
    (MAX_ITERATIONS + 1) * (CASE pc = "kmEnter" -> 3
                              [] pc = "kmLoop" -> 2
                              [] pc = "kmReturn" -> 1
                              [] OTHER -> 0)
        + (MAX_ITERATIONS - iter)

\* C25: kMeans ends on every input, after at most MAX_ITERATIONS passes,
\* converged or not.  A pass starts only while iter is below the cap, and it
\* either counts iter up or leaves the loop; no step is held up short of the
\* return, and every step takes away from what is left, which is never
\* negative.
C25_Terminates ==
    [][ (pc \in {"kmEnter", "kmLoop", "kmReturn"}) =>
            /\ pc = "kmLoop" =>
                   /\ iter < MAX_ITERATIONS
                   /\ \/ iter' = iter + 1 /\ pc' \in {"kmLoop", "kmReturn"}
                      \/ iter' = iter /\ pc' = "kmReturn"
            /\ pc = "kmReturn" => pc' = "kmDone"
            /\ iter' <= MAX_ITERATIONS
            /\ Remaining' >= 0
            /\ Remaining > Remaining'
      ]_vars

\* A run of ten passes that returned centroids one more pass would change.
C25_Witness ==
    /\ pc = "kmDone"
    /\ iter = MAX_ITERATIONS
    /\ WouldChange
    /\ kmResult = centroids

\* C26: a pass ends the loop short of the cap exactly when it leaves every
\* centroid as it was, and the centroids returned after such a pass are a
\* fixed point: one more pass on them changes none.
C26_StopsExactlyOnFixedPoint ==
    [][ /\ pc = "kmLoop" =>
               ((pc' = "kmReturn" /\ iter' = iter) <=> centroids' = centroids)
        /\ (pc = "kmReturn" /\ iter < MAX_ITERATIONS) =>
               /\ ~WouldChange
               /\ centroids' = centroids
               /\ LET returned == kmResult'
                  IN  iteration(kmPixels, Len(returned), returned).centroids
                          = returned
      ]_vars

\* A run that moved a centroid, then stopped short of the cap.
C26_Witness ==
    /\ pc = "kmDone"
    /\ 0 < iter
    /\ iter < MAX_ITERATIONS
    /\ Len(kmPixels) > kmK
    /\ ~WouldChange

\* A run that stopped in its tenth pass, which changed nothing.
C26_WitnessTenth ==
    /\ pc = "kmDone"
    /\ iter = MAX_ITERATIONS - 1
    /\ ~WouldChange

\* A run cut by the cap after a pass that moved a centroid, although no
\* further pass would.
C26_WitnessCapOnFixedPoint ==
    /\ pc = "kmDone"
    /\ iter = MAX_ITERATIONS
    /\ ~WouldChange

(***************************************************************************)
(* C27: filterSimilarColors                                                *)
(***************************************************************************)
\* The Euclidean distance of a and b is strictly below t.
CloserThan(a, b, t) == ~AtLeastApart(a, b, t)

\* The indices of the candidates that are kept: a candidate is kept exactly
\* when no kept candidate before it is closer than the threshold.
KeptIndices(colors, t) ==
    CHOOSE K \in SUBSET (1..Len(colors)) :
        \A i \in 1..Len(colors) :
            i \in K <=> ~\E j \in K : j < i /\ CloserThan(colors[i], colors[j], t)

RECURSIVE Picked(_, _, _)
\* The candidates from index i on whose index is in K, in their order.
Picked(colors, K, i) ==
    IF i > Len(colors) THEN <<>>
    ELSE IF i \in K THEN <<colors[i]>> \o Picked(colors, K, i + 1)
         ELSE Picked(colors, K, i + 1)

C27_WitnessAtThreshold ==
    /\ flPc = "returned"
    /\ flThreshold = 5
    /\ flColors = << <<0, 0, 0>>, <<0, 3, 4>> >>
    /\ flOut = flColors

(***************************************************************************)
(* C28: the points quantize hands to kMeans                                *)
(***************************************************************************)
\* kMeans has been called by quantize.
Clustering == pc \in {"kmEnter", "kmLoop", "kmReturn", "kmDone"}

\* C28: the points handed to kMeans are the visible pixels as RGB: all of
\* them in buffer order when they are no more than the cap, and otherwise as
\* many as the cap, none occurring more often than among the visible pixels.
C28_SampleOfVisiblePixels ==
    Clustering =>
        LET v == VisibleColours(data)
        IN  /\ kmPixels = sampled
            /\ Len(v) <= MAX_SAMPLE_SIZE => kmPixels = v
            /\ Len(v) > MAX_SAMPLE_SIZE =>
                   /\ Len(kmPixels) = MAX_SAMPLE_SIZE
                   /\ \A x \in Range(kmPixels) :
                          Occurrences(kmPixels, x) <= Occurrences(v, x)

\* More visible pixels than the cap, one colour twice among them, and a
\* sample that is not the first pixels in buffer order.
C28_Witness ==
    /\ pc = "kmEnter"
    /\ Len(VisibleColours(data)) > MAX_SAMPLE_SIZE
    /\ \E x \in Range(VisibleColours(data)) : Occurrences(VisibleColours(data), x) = 2
    /\ kmPixels # SubSeq(VisibleColours(data), 1, MAX_SAMPLE_SIZE)

\* As many visible pixels as the cap, of different colours, behind a
\* transparent one: handed over as they are.
C28_WitnessAtCap ==
    /\ pc = "kmEnter"
    /\ PixelCount(data) > MAX_SAMPLE_SIZE
    /\ Len(VisibleColours(data)) = MAX_SAMPLE_SIZE
    /\ Cardinality(Range(kmPixels)) > 1
    /\ kmPixels = VisibleColours(data)

(***************************************************************************)
(* C29: the shape of the colours                                           *)
(***************************************************************************)
\* C29: on a buffer of bytes every centroid, after the initialisation and
\* after every pass, every colour kMeans returns and every colour quantize
\* returns has three components, each an integer from 0 to 255.
C29_ColoursAreByteTriplets ==
    /\ InLoop => \A i \in Live(centroids) : IsByteTriplet(centroids[i])
    /\ pc \in {"kmDone", "done"} =>
           \A i \in 1..Len(kmResult) : IsByteTriplet(kmResult[i])
    /\ pc = "done" => \A i \in 1..Len(palette) : IsByteTriplet(palette[i])

\* quantize returned a colour that is no pixel of the buffer: the mean of
\* red and blue, 127.5 rounded to 128.
C29_Witness ==
    /\ pc = "done"
    /\ maxColors = 2
    /\ Len(palette) = 2
    /\ <<128, 0, 128>> \in Range(palette)
    /\ <<128, 0, 128>> \notin Range(VisibleColours(data))

=============================================================================
